---------------------------- MODULE Spec2Model ----------------------------
(***************************************************************************)
(* Model of example_code/item_58_learn.py: Conway's Game of Life on a      *)
(* toroidal grid, computed by a two-stage pipeline of StoppableWorker      *)
(* threads connected by ClosableQueue objects.                             *)
(*                                                                         *)
(* Threads: the main thread (module-level driver and simulation_pipeline)  *)
(* and the workers of the two pools.  Every Queue method (put, get,        *)
(* task_done, join) and every LockGrid method runs under its own mutex, so *)
(* each is one atomic step; the code between two such calls of one thread  *)
(* is local to that thread and is folded into the step that follows it.    *)
(***************************************************************************)
EXTENDS Integers, Sequences, FiniteSets, Bags, TLC

VARIABLES
    heap,                \* the Grid objects allocated so far, by reference
    lockgrid,            \* module-level `lockgrid`: reference to the current grid
    next_grid,           \* simulation_pipeline's `next_grid` (0: not allocated)
    columns,             \* ColumnPrinter.columns: the rendered snapshots
    queues,              \* in_queue, neighbors_queue, out_queue
    threads,             \* every StoppableWorker: its fields, position, item in hand
    neighbors_threads,   \* module-level list of the stage-1 workers
    game_logic_threads,  \* module-level list of the stage-2 workers
    main,                \* the main thread: position, loop variables, item in hand
    generations,         \* number of iterations of the driver loop
    faults,              \* how many more calls of the accessor `get` may raise
    hist,                \* history per queue: puts, gets, task_dones
    writes,              \* history: set() calls per cell of next_grid
    rule_in,             \* input of the rule functions (pure-function checks)
    rule_out             \* their result

vars == <<heap, lockgrid, next_grid, columns, queues, threads,
          neighbors_threads, game_logic_threads, main, generations, faults,
          hist, writes, rule_in, rule_out>>

---------------------------------------------------------------------------
(* Bounds of the model *)

\* height and width of the grids of Spec
GridH == 2
GridW == 2
\* workers per pool in Spec (the reference starts 5 per pool)
PoolSize == 2
\* iterations of the driver loop in Spec (the reference runs 5)
MaxGens == 2
\* how many calls of the accessor may raise in one run of SpecFaulty
MaxFaults == 1
\* SpecRule: Grid.get and Grid.set are called with rows and columns in
\* -CoordSpan..CoordSpan
CoordSpan == 4
\* iterations of the driver loop in SpecFaulty
FaultyGens == 1
\* SpecLock: calls of simulation_pipeline
LockGens == 1
\* workers per pool in the specifications of the 5 x 9 reference grid
RefPool == 1

\* the reference grid: LockGrid(5, 9)
RefHeight == 5
RefWidth == 9

---------------------------------------------------------------------------
(* Cell states and the values that stand for captured exceptions *)

ALIVE == "*"
EMPTY == "-"

\* the exception `e` stored by count_neighbors_thread in place of the count;
\* counts are integers, so the captured exception is the one integer that is
\* no count
CaughtCount == -1
\* the exception `e` stored by game_logic_thread in place of the next state
CaughtState == "TypeError"

SENTINEL == <<"SENTINEL">>
NoItem == <<>>

QueueNames == {"in_queue", "neighbors_queue", "out_queue"}

---------------------------------------------------------------------------
(* Grid and LockGrid *)

\* Grid.__init__: height rows of width EMPTY cells
Grid(height, width) ==
    [height |-> height, width |-> width,
     rows |-> [y \in 1..height |-> [x \in 1..width |-> EMPTY]]]

\* Grid.get with the bug of indexing the rows by the column and the columns
\* by the row
Grid_get_transposed(self, y, x) ==
    self.rows[(x % self.width) + 1][(y % self.height) + 1]

\* Grid.get: rows[y % height][x % width] (lists are 0-based, sequences 1-based)
Grid_get(self, y, x) == self.rows[(y % self.height) + 1][(x % self.width) + 1]

\* Grid.set
Grid_set(self, y, x, state) ==
    [self EXCEPT !.rows[(y % self.height) + 1][(x % self.width) + 1] = state]

\* LockGrid.__init__: a Grid with a Lock.  `lock` is the set of the threads
\* inside a `with self.lock` block of this grid; a new Lock is held by none
LockGrid(height, width) ==
    [height |-> height, width |-> width, rows |-> Grid(height, width).rows,
     lock |-> {}]

\* the LockGrid with the cells of `grid`
Locked(grid) == [LockGrid(grid.height, grid.width) EXCEPT !.rows = grid.rows]

\* Lock.acquire with the bug of a lock that lets every thread in
Lock_acquire_ready_never_blocks(self) == TRUE

\* Lock.acquire blocks while a thread holds the lock
Lock_acquire_ready(self) == self.lock = {}

\* Lock.acquire by thread th, on entering `with self.lock`
Lock_acquire(self, th) == [self EXCEPT !.lock = @ \cup {th}]

\* Lock.release by thread th, on leaving `with self.lock`
Lock_release(self, th) == [self EXCEPT !.lock = @ \ {th}]


\* a cell that `output += cell` accepts: a str
IsStr(cell) == cell \in {ALIVE, EMPTY}

RECURSIVE Flatten(_)
Flatten(ss) == IF ss = <<>> THEN <<>> ELSE Head(ss) \o Flatten(Tail(ss))

\* Grid.__str__: the cells of each row followed by a newline
Grid_str(self) == Flatten([y \in 1..self.height |-> self.rows[y] \o <<"\n">>])

\* Grid.__str__ raises TypeError when a cell is not a str
Grid_str_raises(self) ==
    \E y \in 1..self.height : \E x \in 1..self.width : ~IsStr(self.rows[y][x])

\* the coordinates range(height) x range(width)
Cells(self) == (0..(self.height - 1)) \X (0..(self.width - 1))

---------------------------------------------------------------------------
(* Rule functions *)

\* game_logic raises TypeError on `neighbors < 2` when neighbors is an
\* exception object; `neighbors == 3` on such an object is just False
game_logic_raises(state, neighbors) == state = ALIVE /\ neighbors = CaughtCount

\* game_logic with the bug of an off-by-one overpopulation test
game_logic_dies_at_three(state, neighbors) ==
    IF state = ALIVE
    THEN IF neighbors < 2 THEN EMPTY
         ELSE IF neighbors >= 3 THEN EMPTY
         ELSE state
    ELSE IF neighbors = 3 THEN ALIVE
         ELSE state

\* game_logic with the bug of a birth rule that also fires on two neighbors
game_logic_born_at_two(state, neighbors) ==
    IF state = ALIVE
    THEN IF neighbors < 2 THEN EMPTY
         ELSE IF neighbors > 3 THEN EMPTY
         ELSE state
    ELSE IF neighbors >= 2 /\ neighbors <= 3 THEN ALIVE
         ELSE state

game_logic(state, neighbors) ==
    IF state = ALIVE
    THEN IF neighbors < 2 THEN EMPTY
         ELSE IF neighbors > 3 THEN EMPTY
         ELSE state
    ELSE IF neighbors = 3 THEN ALIVE
         ELSE state

\* game_logic_thread with the bug of returning the column before the row
game_logic_thread_swaps(item) ==
    LET y == item[1]
        x == item[2]
        state == item[3]
        neighbors == item[4]
        next_stae == IF game_logic_raises(state, neighbors)
                     THEN CaughtState
                     ELSE game_logic(state, neighbors)
    IN <<x, y, next_stae>>

\* game_logic_thread: y, x, state, neighbors = item; the next state, or the
\* exception game_logic raised, in a new item
game_logic_thread(item) ==
    LET y == item[1]
        x == item[2]
        state == item[3]
        neighbors == item[4]
        next_stae == IF game_logic_raises(state, neighbors)
                     THEN CaughtState
                     ELSE game_logic(state, neighbors)
    IN <<y, x, next_stae>>

\* the eight reads of count_neighbors, in the order of the code
\* count_neighbors with the bug of reading the northern neighbor a second
\* time in place of the north-western one
NeighborStates_north_twice(y, x, grid) ==
    << Grid_get(grid, y - 1, x + 0),
       Grid_get(grid, y - 1, x + 1),
       Grid_get(grid, y + 0, x + 1),
       Grid_get(grid, y + 1, x + 1),
       Grid_get(grid, y + 1, x + 0),
       Grid_get(grid, y + 1, x - 1),
       Grid_get(grid, y + 0, x - 1),
       Grid_get(grid, y - 1, x + 0) >>

NeighborStates(y, x, grid) ==
    << Grid_get(grid, y - 1, x + 0),
       Grid_get(grid, y - 1, x + 1),
       Grid_get(grid, y + 0, x + 1),
       Grid_get(grid, y + 1, x + 1),
       Grid_get(grid, y + 1, x + 0),
       Grid_get(grid, y + 1, x - 1),
       Grid_get(grid, y + 0, x - 1),
       Grid_get(grid, y - 1, x - 1) >>

RECURSIVE CountAlive(_)
CountAlive(states) ==
    IF states = <<>> THEN 0
    ELSE (IF Head(states) = ALIVE THEN 1 ELSE 0) + CountAlive(Tail(states))

\* count_neighbors(y, x, get) with get the bound method of `grid`
count_neighbors(y, x, grid) == CountAlive(NeighborStates(y, x, grid))

\* count_neighbors_thread; `raised` says that a call of get raised
count_neighbors_thread(item, raised) ==
    LET y == item[1]
        x == item[2]
        state == item[3]
        get == item[4]
        neighbors == IF raised THEN CaughtCount
                     ELSE count_neighbors(y, x, heap[get])
    IN <<y, x, state, neighbors>>

\* the outcomes of one call of the accessor: it raises only while faults last
Raises == IF faults > 0 THEN {FALSE, TRUE} ELSE {FALSE}

---------------------------------------------------------------------------
(* ClosableQueue: queue.Queue (FIFO, unbounded) plus close and __iter__ *)

\* a new Queue: empty, no unfinished task
ClosableQueue == [queue |-> <<>>, unfinished_tasks |-> 0]

\* Queue.put: append the item, count it as unfinished
Queue_put(self, item) ==
    [self EXCEPT !.queue = Append(@, item), !.unfinished_tasks = @ + 1]

\* ClosableQueue.close
ClosableQueue_close(self) == Queue_put(self, SENTINEL)

\* Queue.get blocks while the queue is empty
Queue_get_ready(self) == self.queue # <<>>

\* Queue.get: the item at the front ...
Queue_get_item(self) == Head(self.queue)

\* Queue.get with the bug of counting the item as done when it is taken
Queue_get_marks_done(self) ==
    [self EXCEPT !.queue = Tail(@), !.unfinished_tasks = @ - 1]

\* ... which leaves the queue; unfinished_tasks is not touched
Queue_get(self) == [self EXCEPT !.queue = Tail(@)]

\* Queue.task_done
Queue_task_done(self) == [self EXCEPT !.unfinished_tasks = @ - 1]

\* Queue.join with the bug of not waiting for the last task
Queue_join_one_early(self) == self.unfinished_tasks <= 1

\* Queue.join returns when no task is unfinished
Queue_join_ready(self) == self.unfinished_tasks = 0

\* `item is self.SENTINEL`
IsSentinel(item) == item = SENTINEL

---------------------------------------------------------------------------
(* History of the queue operations (not program state) *)

NoHist ==
    [nput |-> 0, nget |-> 0, ndone |-> 0, nsentinel |-> 0,
     put |-> EmptyBag, got |-> EmptyBag]

HistPut(h, item) ==
    IF IsSentinel(item)
    THEN [h EXCEPT !.nput = @ + 1, !.nsentinel = @ + 1]
    ELSE [h EXCEPT !.nput = @ + 1, !.put = @ (+) SetToBag({item})]

HistGet(h, item) ==
    IF IsSentinel(item)
    THEN [h EXCEPT !.nget = @ + 1]
    ELSE [h EXCEPT !.nget = @ + 1, !.got = @ (+) SetToBag({item})]

HistDone(h) == [h EXCEPT !.ndone = @ + 1]

---------------------------------------------------------------------------
(* StoppableWorker *)

\* StoppableWorker.__init__ followed by start(): the thread is at the first
\* get() of `for item in self.in_queue`.  `locals` holds the neighbor states
\* count_neighbors has read so far when its get calls are separate steps
StoppableWorker(func, in_queue, out_queue) ==
    [func |-> func, in_queue |-> in_queue, out_queue |-> out_queue,
     pc |-> "get", item |-> NoItem, locals |-> <<>>]

\* self.func(item)
Apply(func, item, raised) ==
    IF func = "count_neighbors_thread"
    THEN count_neighbors_thread(item, raised)
    ELSE game_logic_thread(item)

\* whether self.func calls the accessor
CallsGet(func) == func = "count_neighbors_thread"

\* ClosableQueue.__iter__ with the bug of looping on after a sentinel
AfterTaskDone_loops(pc) == "get"

\* ClosableQueue.__iter__ after task_done: `return` ends the generator, and
\* with it the consumer's for loop, when the item was the sentinel; otherwise
\* `while True` goes back to get()
AfterTaskDone(pc) == IF pc = "stop" THEN "terminated" ELSE "get"

\* ClosableQueue.__iter__, `item = self.get()`, as run by worker t
Worker_get(t) ==
    LET self == threads[t]
        q == queues[self.in_queue]
        item == Queue_get_item(q)
    IN /\ self.pc = "get"
       /\ Queue_get_ready(q)
       /\ queues' = [queues EXCEPT ![self.in_queue] = Queue_get(q)]
       /\ threads' = [threads EXCEPT
              ![t].item = item,
              ![t].pc = IF IsSentinel(item) THEN "stop" ELSE "run"]
       /\ hist' = [hist EXCEPT ![self.in_queue] = HistGet(@, item)]
       /\ UNCHANGED <<heap, lockgrid, next_grid, columns, neighbors_threads,
                      game_logic_threads, main, generations, faults, writes,
                      rule_in, rule_out>>

\* whether self.func(item) fails: the accessor raised, or game_logic did
Fails(func, item, raised) ==
    IF CallsGet(func) THEN raised ELSE game_logic_raises(item[3], item[4])

\* StoppableWorker.run with the bug of transform functions that catch
\* nothing: a failure of self.func(item) ends the thread
Worker_run_uncaught(t) ==
    LET self == threads[t]
    IN /\ self.pc = "run"
       /\ \E raised \in (IF CallsGet(self.func) THEN Raises ELSE {FALSE}) :
            LET result == Apply(self.func, self.item, raised)
            IN IF Fails(self.func, self.item, raised)
               THEN /\ threads' = [threads EXCEPT ![t].pc = "terminated"]
                    /\ faults' = IF raised THEN faults - 1 ELSE faults
                    /\ UNCHANGED <<queues, hist>>
               ELSE /\ queues' = [queues EXCEPT
                           ![self.out_queue] = Queue_put(@, result)]
                    /\ hist' = [hist EXCEPT
                           ![self.out_queue] = HistPut(@, result)]
                    /\ threads' = [threads EXCEPT ![t].pc = "task_done"]
                    /\ UNCHANGED faults
       /\ UNCHANGED <<heap, lockgrid, next_grid, columns, neighbors_threads,
                      game_logic_threads, main, generations, writes,
                      rule_in, rule_out>>

\* StoppableWorker.run with the bug of marking the item done before its
\* result is put: task_done() first, out_queue.put(result) in a later step
Worker_run_done_first(t) ==
    LET self == threads[t]
        result == Apply(self.func, self.item, FALSE)
    IN /\ \/ /\ self.pc = "run"
             /\ queues' = [queues EXCEPT
                    ![self.in_queue] = Queue_task_done(@)]
             /\ hist' = [hist EXCEPT ![self.in_queue] = HistDone(@)]
             /\ threads' = [threads EXCEPT ![t].pc = "put"]
          \/ /\ self.pc = "put"
             /\ queues' = [queues EXCEPT
                    ![self.out_queue] = Queue_put(@, result)]
             /\ hist' = [hist EXCEPT ![self.out_queue] = HistPut(@, result)]
             /\ threads' = [threads EXCEPT ![t].pc = "get",
                                            ![t].item = NoItem]
       /\ UNCHANGED <<heap, lockgrid, next_grid, columns, neighbors_threads,
                      game_logic_threads, main, generations, faults, writes,
                      rule_in, rule_out>>


\* StoppableWorker.run, the loop body: result = self.func(item);
\* self.out_queue.put(result)
Worker_run(t) ==
    LET self == threads[t]
    IN /\ self.pc = "run"
       /\ \E raised \in (IF CallsGet(self.func) THEN Raises ELSE {FALSE}) :
            LET result == Apply(self.func, self.item, raised)
            IN /\ queues' = [queues EXCEPT
                      ![self.out_queue] = Queue_put(@, result)]
               /\ hist' = [hist EXCEPT ![self.out_queue] = HistPut(@, result)]
               /\ faults' = IF raised THEN faults - 1 ELSE faults
       /\ threads' = [threads EXCEPT ![t].pc = "task_done"]
       /\ UNCHANGED <<heap, lockgrid, next_grid, columns, neighbors_threads,
                      game_logic_threads, main, generations, writes,
                      rule_in, rule_out>>

\* ClosableQueue.__iter__ with the bug of putting the sentinel back for the
\* other consumers when it ends the loop
Worker_task_done_requeues(t) ==
    LET self == threads[t]
    IN /\ self.pc \in {"task_done", "stop"}
       /\ queues' = [queues EXCEPT
              ![self.in_queue] =
                  IF self.pc = "stop"
                  THEN Queue_put(Queue_task_done(@), SENTINEL)
                  ELSE Queue_task_done(@)]
       /\ hist' = [hist EXCEPT ![self.in_queue] = HistDone(@)]
       /\ threads' = [threads EXCEPT
              ![t].item = NoItem,
              ![t].pc = AfterTaskDone(self.pc)]
       /\ UNCHANGED <<heap, lockgrid, next_grid, columns, neighbors_threads,
                      game_logic_threads, main, generations, faults, writes,
                      rule_in, rule_out>>

\* ClosableQueue.__iter__ with the bug of returning on the sentinel outside
\* the try block: the sentinel is never marked done
Worker_task_done_skips_sentinel(t) ==
    LET self == threads[t]
    IN /\ self.pc \in {"task_done", "stop"}
       /\ queues' = [queues EXCEPT
              ![self.in_queue] =
                  IF self.pc = "stop" THEN @ ELSE Queue_task_done(@)]
       /\ hist' = [hist EXCEPT
              ![self.in_queue] = IF self.pc = "stop" THEN @ ELSE HistDone(@)]
       /\ threads' = [threads EXCEPT
              ![t].item = NoItem,
              ![t].pc = AfterTaskDone(self.pc)]
       /\ UNCHANGED <<heap, lockgrid, next_grid, columns, neighbors_threads,
                      game_logic_threads, main, generations, faults, writes,
                      rule_in, rule_out>>


\* ClosableQueue.__iter__, `finally: self.task_done()`: after the loop body of
\* an item, then back to get(); after a sentinel, then the generator returns,
\* the for loop ends and the thread terminates
Worker_task_done(t) ==
    LET self == threads[t]
    IN /\ self.pc \in {"task_done", "stop"}
       /\ queues' = [queues EXCEPT ![self.in_queue] = Queue_task_done(@)]
       /\ hist' = [hist EXCEPT ![self.in_queue] = HistDone(@)]
       /\ threads' = [threads EXCEPT
              ![t].item = NoItem,
              ![t].pc = AfterTaskDone(self.pc)]
       /\ UNCHANGED <<heap, lockgrid, next_grid, columns, neighbors_threads,
                      game_logic_threads, main, generations, faults, writes,
                      rule_in, rule_out>>

---------------------------------------------------------------------------
(* The main thread: the module-level driver and simulation_pipeline *)

OtherThanMain ==
    <<heap, lockgrid, next_grid, columns, queues, threads, faults, hist,
      writes>>

\* the cell after (y, x) in `for y in range(height): for x in range(width)`,
\* or <<>> after the last one
NextCell(grid, y, x) ==
    IF x + 1 < grid.width THEN <<y, x + 1>>
    ELSE IF y + 1 < grid.height THEN <<y + 1, 0>>
    ELSE <<>>

\* the driver loop, `for _ in range(5)`: columns.append(str(lockgrid)) and the
\* call of simulation_pipeline; after the last iteration, print(columns)
Main_loop ==
    /\ main.pc = "loop"
    /\ IF main.gen < generations
       THEN IF Grid_str_raises(heap[lockgrid])
            THEN /\ main' = [main EXCEPT !.pc = "raised"]
                 /\ UNCHANGED columns
            ELSE /\ columns' = Append(columns, Grid_str(heap[lockgrid]))
                 /\ main' = [main EXCEPT !.pc = "put", !.y = 0, !.x = 0]
       ELSE /\ main' = [main EXCEPT !.pc = "shutdown_in", !.i = 0]
            /\ UNCHANGED columns
    /\ UNCHANGED <<heap, lockgrid, next_grid, queues, threads,
                   neighbors_threads, game_logic_threads, generations, faults,
                   hist, writes, rule_in, rule_out>>

\* simulation_pipeline, the body of the two for loops: state = grid.get(y, x);
\* in_queue.put((y, x, state, grid.get)).  A raising get ends the call and,
\* uncaught, the main thread.
Main_put ==
    /\ main.pc = "put"
    /\ \E raised \in Raises :
         IF raised
         THEN /\ main' = [main EXCEPT !.pc = "raised"]
              /\ faults' = faults - 1
              /\ UNCHANGED <<queues, hist>>
         ELSE LET grid == heap[lockgrid]
                  state == Grid_get(grid, main.y, main.x)
                  item == <<main.y, main.x, state, lockgrid>>
                  next == NextCell(grid, main.y, main.x)
              IN /\ queues' = [queues EXCEPT !["in_queue"] = Queue_put(@, item)]
                 /\ hist' = [hist EXCEPT !["in_queue"] = HistPut(@, item)]
                 /\ main' = IF next = <<>>
                            THEN [main EXCEPT !.pc = "join_in"]
                            ELSE [main EXCEPT !.y = next[1], !.x = next[2]]
                 /\ UNCHANGED faults
    /\ UNCHANGED <<heap, lockgrid, next_grid, columns, threads,
                   neighbors_threads, game_logic_threads, generations, writes,
                   rule_in, rule_out>>

\* in_queue.join()
Main_join_in ==
    /\ main.pc = "join_in"
    /\ Queue_join_ready(queues["in_queue"])
    /\ main' = [main EXCEPT !.pc = "join_neighbors"]
    /\ UNCHANGED <<OtherThanMain, neighbors_threads, game_logic_threads,
                   generations, rule_in, rule_out>>

\* neighbors_queue.join()
Main_join_neighbors ==
    /\ main.pc = "join_neighbors"
    /\ Queue_join_ready(queues["neighbors_queue"])
    /\ main' = [main EXCEPT !.pc = "close"]
    /\ UNCHANGED <<OtherThanMain, neighbors_threads, game_logic_threads,
                   generations, rule_in, rule_out>>

\* simulation_pipeline with the bug of closing out_queue once per worker of
\* the last stage, as the shutdown does for the other queues (here: twice)
Main_close_twice ==
    /\ main.pc = "close"
    /\ queues' = [queues EXCEPT !["out_queue"] =
           ClosableQueue_close(ClosableQueue_close(@))]
    /\ hist' = [hist EXCEPT !["out_queue"] =
           HistPut(HistPut(@, SENTINEL), SENTINEL)]
    /\ heap' = Append(heap,
                      LockGrid(heap[lockgrid].height, heap[lockgrid].width))
    /\ next_grid' = Len(heap) + 1
    /\ writes' = [c \in Cells(heap[lockgrid]) |-> 0]
    /\ main' = [main EXCEPT !.pc = "drain_get"]
    /\ UNCHANGED <<lockgrid, columns, threads, neighbors_threads,
                   game_logic_threads, generations, faults, rule_in, rule_out>>


\* simulation_pipeline with the bug of a forgotten out_queue.close(): the
\* drain waits for a sentinel that nobody puts
Main_close_forgotten ==
    /\ main.pc = "close"
    /\ heap' = Append(heap,
                      LockGrid(heap[lockgrid].height, heap[lockgrid].width))
    /\ next_grid' = Len(heap) + 1
    /\ writes' = [c \in Cells(heap[lockgrid]) |-> 0]
    /\ main' = [main EXCEPT !.pc = "drain_get"]
    /\ UNCHANGED <<lockgrid, columns, queues, hist, threads,
                   neighbors_threads, game_logic_threads, generations, faults,
                   rule_in, rule_out>>


\* out_queue.close(); next_grid = LockGrid(grid.height, grid.width)
Main_close ==
    /\ main.pc = "close"
    /\ queues' = [queues EXCEPT !["out_queue"] = ClosableQueue_close(@)]
    /\ hist' = [hist EXCEPT !["out_queue"] = HistPut(@, SENTINEL)]
    /\ heap' = Append(heap,
                      LockGrid(heap[lockgrid].height, heap[lockgrid].width))
    /\ next_grid' = Len(heap) + 1
    /\ writes' = [c \in Cells(heap[lockgrid]) |-> 0]
    /\ main' = [main EXCEPT !.pc = "drain_get"]
    /\ UNCHANGED <<lockgrid, columns, threads, neighbors_threads,
                   game_logic_threads, generations, faults, rule_in, rule_out>>

\* `for item in out_queue`: ClosableQueue.__iter__, item = self.get()
Main_drain_get ==
    LET q == queues["out_queue"]
        item == Queue_get_item(q)
    IN /\ main.pc = "drain_get"
       /\ Queue_get_ready(q)
       /\ queues' = [queues EXCEPT !["out_queue"] = Queue_get(q)]
       /\ hist' = [hist EXCEPT !["out_queue"] = HistGet(@, item)]
       /\ main' = [main EXCEPT
              !.item = item,
              !.pc = IF IsSentinel(item) THEN "drain_stop" ELSE "drain_set"]
       /\ UNCHANGED <<heap, lockgrid, next_grid, columns, threads,
                      neighbors_threads, game_logic_threads, generations,
                      faults, writes, rule_in, rule_out>>

\* simulation_pipeline with the bug of updating in place: the drain loop
\* calls grid.set(y, x, state) on the grid it was given
Main_drain_set_in_place ==
    LET y == main.item[1]
        x == main.item[2]
        state == main.item[3]
        grid == heap[lockgrid]
    IN /\ main.pc = "drain_set"
       /\ heap' = [heap EXCEPT ![lockgrid] = Grid_set(grid, y, x, state)]
       /\ writes' = [writes EXCEPT
              ![<<y % grid.height, x % grid.width>>] = @ + 1]
       /\ main' = [main EXCEPT !.pc = "drain_task_done"]
       /\ UNCHANGED <<lockgrid, next_grid, columns, queues, threads,
                      neighbors_threads, game_logic_threads, generations,
                      faults, hist, rule_in, rule_out>>


\* the body of the drain loop: y, x, state = item; next_grid.set(y, x, state)
Main_drain_set ==
    LET y == main.item[1]
        x == main.item[2]
        state == main.item[3]
        grid == heap[next_grid]
    IN /\ main.pc = "drain_set"
       /\ heap' = [heap EXCEPT ![next_grid] = Grid_set(grid, y, x, state)]
       /\ writes' = [writes EXCEPT
              ![<<y % grid.height, x % grid.width>>] = @ + 1]
       /\ main' = [main EXCEPT !.pc = "drain_task_done"]
       /\ UNCHANGED <<lockgrid, next_grid, columns, queues, threads,
                      neighbors_threads, game_logic_threads, generations,
                      faults, hist, rule_in, rule_out>>

\* simulation_pipeline with the bug of `return next_grid` inside the drain
\* loop: the grid is handed back after the first item
Main_drain_returns_early ==
    /\ main.pc \in {"drain_task_done", "drain_stop"}
    /\ queues' = [queues EXCEPT !["out_queue"] = Queue_task_done(@)]
    /\ hist' = [hist EXCEPT !["out_queue"] = HistDone(@)]
    /\ lockgrid' = next_grid
    /\ next_grid' = 0
    /\ main' = [main EXCEPT !.pc = "loop", !.item = NoItem, !.gen = @ + 1]
    /\ UNCHANGED <<heap, columns, threads, neighbors_threads,
                   game_logic_threads, generations, faults, writes,
                   rule_in, rule_out>>

\* ClosableQueue.__iter__, `finally: self.task_done()`, in the drain; after the
\* sentinel the loop ends, simulation_pipeline returns next_grid and the driver
\* stores it in lockgrid
Main_drain_task_done ==
    /\ main.pc \in {"drain_task_done", "drain_stop"}
    /\ queues' = [queues EXCEPT !["out_queue"] = Queue_task_done(@)]
    /\ hist' = [hist EXCEPT !["out_queue"] = HistDone(@)]
    /\ IF main.pc = "drain_stop"
       THEN /\ lockgrid' = next_grid
            /\ next_grid' = 0
            /\ main' = [main EXCEPT
                   !.pc = "loop", !.item = NoItem, !.gen = @ + 1]
       ELSE /\ main' = [main EXCEPT !.pc = "drain_get", !.item = NoItem]
            /\ UNCHANGED <<lockgrid, next_grid>>
    /\ UNCHANGED <<heap, columns, threads, neighbors_threads,
                   game_logic_threads, generations, faults, writes,
                   rule_in, rule_out>>

\* `for _ in neighbors_threads: in_queue.close()`
Main_shutdown_in ==
    /\ main.pc = "shutdown_in"
    /\ queues' = [queues EXCEPT !["in_queue"] = ClosableQueue_close(@)]
    /\ hist' = [hist EXCEPT !["in_queue"] = HistPut(@, SENTINEL)]
    /\ main' = IF main.i + 1 < Len(neighbors_threads)
               THEN [main EXCEPT !.i = @ + 1]
               ELSE [main EXCEPT !.pc = "shutdown_neighbors", !.i = 0]
    /\ UNCHANGED <<heap, lockgrid, next_grid, columns, threads,
                   neighbors_threads, game_logic_threads, generations, faults,
                   writes, rule_in, rule_out>>

\* `for _ in game_logic_threads: neighbors_queue.close()`
Main_shutdown_neighbors ==
    /\ main.pc = "shutdown_neighbors"
    /\ queues' = [queues EXCEPT !["neighbors_queue"] = ClosableQueue_close(@)]
    /\ hist' = [hist EXCEPT !["neighbors_queue"] = HistPut(@, SENTINEL)]
    /\ main' = IF main.i + 1 < Len(game_logic_threads)
               THEN [main EXCEPT !.i = @ + 1]
               ELSE [main EXCEPT !.pc = "join_threads", !.i = 0]
    /\ UNCHANGED <<heap, lockgrid, next_grid, columns, threads,
                   neighbors_threads, game_logic_threads, generations, faults,
                   writes, rule_in, rule_out>>

\* `for thread in neighbors_threads: thread.join()`, then the same over
\* game_logic_threads; Thread.join returns once the thread has terminated
Main_join_threads ==
    LET all == neighbors_threads \o game_logic_threads
    IN /\ main.pc = "join_threads"
       /\ threads[all[main.i + 1]].pc = "terminated"
       /\ main' = IF main.i + 1 < Len(all)
                  THEN [main EXCEPT !.i = @ + 1]
                  ELSE [main EXCEPT !.pc = "end"]
       /\ UNCHANGED <<OtherThanMain, neighbors_threads, game_logic_threads,
                      generations, rule_in, rule_out>>

---------------------------------------------------------------------------
(* Initial states and specifications *)

\* all grids of the given size over the two cell states
Grids(height, width) ==
    { [height |-> height, width |-> width, rows |-> rows] :
        rows \in [1..height -> [1..width -> {ALIVE, EMPTY}]] }

\* the state after the module-level set-up: the three queues created, `pool`
\* workers per stage started, the first grid filled in
InitWith(grids, pool, gens, maxfaults) ==
    /\ heap \in {<<Locked(g)>> : g \in grids}
    /\ lockgrid = 1
    /\ next_grid = 0
    /\ columns = <<>>
    /\ queues = [q \in QueueNames |-> ClosableQueue]
    /\ neighbors_threads = [i \in 1..pool |-> i]
    /\ game_logic_threads = [i \in 1..pool |-> pool + i]
    /\ threads = [t \in 1..(2 * pool) |->
           IF t <= pool
           THEN StoppableWorker("count_neighbors_thread",
                                "in_queue", "neighbors_queue")
           ELSE StoppableWorker("game_logic_thread",
                                "neighbors_queue", "out_queue")]
    /\ main = [pc |-> "loop", gen |-> 0, y |-> 0, x |-> 0, i |-> 0,
               item |-> NoItem]
    /\ generations = gens
    /\ faults \in 0..maxfaults
    /\ hist = [q \in QueueNames |-> NoHist]
    /\ writes = <<>>

\* the specifications of the program apply no rule function on its own
NoRule == rule_in = NoItem /\ rule_out = NoItem

\* Spec: every grid of GridH x GridW, an accessor that never raises
Init == InitWith(Grids(GridH, GridW), PoolSize, MaxGens, 0) /\ NoRule

\* SpecFaulty: the same with an accessor that may raise
InitFaulty ==
    InitWith(Grids(GridH, GridW), PoolSize, FaultyGens, MaxFaults) /\ NoRule

\* the grid of the driver: LockGrid(5, 9) and its five set() calls
Glider ==
    Grid_set(Grid_set(Grid_set(Grid_set(Grid_set(Grid(RefHeight, RefWidth),
        0, 3, ALIVE), 1, 4, ALIVE), 2, 2, ALIVE), 2, 3, ALIVE), 2, 4, ALIVE)

\* SpecGlider: one call of simulation_pipeline on the grid of the driver
InitGlider == InitWith({Glider}, RefPool, 1, 0) /\ NoRule

\* a 2 x 2 block of ALIVE cells with its top left corner at (y, x)
Block(y, x) ==
    Grid_set(Grid_set(Grid_set(Grid_set(Grid(RefHeight, RefWidth),
        y, x, ALIVE), y, x + 1, ALIVE), y + 1, x, ALIVE), y + 1, x + 1, ALIVE)

\* the corners tried: inside the grid, and across its last row, its last
\* column and both
BlockCorners == {<<0, 0>>, <<2, 4>>, <<4, 3>>, <<1, 8>>, <<4, 8>>}

\* SpecBlock: one call of simulation_pipeline on a grid holding one block
InitBlock ==
    InitWith({Block(c[1], c[2]) : c \in BlockCorners}, RefPool, 1, 0) /\ NoRule

\* the remainder of Python's a % n for n > 0: the r in 0..n-1 with a = k*n + r
FloorMod(a, n) ==
    CHOOSE r \in 0..(n - 1) :
        \E k \in (0 - a * a - 1)..(a * a + 1) : a = k * n + r

\* the cell of `grid` in row r and column c, both counted from 0
CellAt(grid, r, c) == grid.rows[r + 1][c + 1]


\* the accessors given to count_neighbors on its own: the get of every 3 x 3
\* grid, the torus on which the eight neighbors of a cell are the eight other
\* cells, so that the eight values are every combination of states
Neighborhoods == Grids(3, 3)

\* the cells the eight get calls of count_neighbors(y, x, get) address
NeighborCells(y, x, grid) ==
    { <<FloorMod(y + dy, grid.height), FloorMod(x + dx, grid.width)>> :
        dy \in {-1, 0, 1}, dx \in {-1, 0, 1} } \
    { <<FloorMod(y, grid.height), FloorMod(x, grid.width)>> }

\* the grid with the values of the cells p and q exchanged
Exchanged(grid, p, q) ==
    Grid_set(Grid_set(grid, p[1], p[2], Grid_get(grid, q[1], q[2])),
             q[1], q[2], Grid_get(grid, p[1], p[2]))

\* SpecRule: a rule function applied to one input.  game_logic gets both
\* states with every count 0..8; game_logic_thread gets the items of stage 2,
\* a captured exception in place of the count included.
RuleInputs ==
    { [func |-> "Grid.get", args |-> <<grid, y, x>>] :
        grid \in Grids(GridH, GridW),
        y \in (0 - CoordSpan)..CoordSpan, x \in (0 - CoordSpan)..CoordSpan }
    \cup
    { [func |-> "Grid.set", args |-> <<grid, y, x, state>>] :
        grid \in Grids(GridH, GridW),
        y \in (0 - CoordSpan)..CoordSpan, x \in (0 - CoordSpan)..CoordSpan,
        state \in {ALIVE, EMPTY} }
    \cup
    { [func |-> "count_neighbors", args |-> <<c[1], c[2], grid>>] :
        grid \in Neighborhoods, c \in Cells(Grid(3, 3)) }
    \cup
    { [func |-> "game_logic", args |-> <<state, neighbors>>] :
        state \in {ALIVE, EMPTY}, neighbors \in 0..8 }
    \cup
    { [func |-> "game_logic_thread",
       args |-> <<c[1], c[2], state, neighbors>>] :
        c \in Cells(Grid(GridH, GridW)), state \in {ALIVE, EMPTY},
        neighbors \in 0..8 \cup {CaughtCount} }

InitRule ==
    /\ InitWith({Grid(GridH, GridW)}, PoolSize, 0, 0)
    /\ rule_in \in RuleInputs
    /\ rule_out = NoItem

\* the call of the function named by rule_in; the result is kept in a tuple
Rule_apply ==
    /\ rule_in # NoItem
    /\ rule_out = NoItem
    /\ rule_out' =
         CASE rule_in.func = "Grid.get" ->
                LET grid == rule_in.args[1]
                    y == rule_in.args[2]
                    x == rule_in.args[3]
                IN << Grid_get(grid, y, x),
                      Grid_get(grid, y + grid.height, x + grid.width) >>
           [] rule_in.func = "Grid.set" ->
                << Grid_set(rule_in.args[1], rule_in.args[2], rule_in.args[3],
                            rule_in.args[4]) >>
           [] rule_in.func = "count_neighbors" ->
                LET y == rule_in.args[1]
                    x == rule_in.args[2]
                    grid == rule_in.args[3]
                IN << count_neighbors(y, x, grid),
                      { count_neighbors(y, x, Exchanged(grid, p, q)) :
                          p \in NeighborCells(y, x, grid),
                          q \in NeighborCells(y, x, grid) } >>
           [] rule_in.func = "game_logic" ->
                <<game_logic(rule_in.args[1], rule_in.args[2])>>
           [] rule_in.func = "game_logic_thread" ->
                game_logic_thread(rule_in.args)
    /\ UNCHANGED <<OtherThanMain, neighbors_threads, game_logic_threads, main,
                   generations, rule_in>>

NextRule == Rule_apply

Workers_get == \E t \in DOMAIN threads : Worker_get(t)

Workers_run == \E t \in DOMAIN threads : Worker_run(t)

Workers_task_done == \E t \in DOMAIN threads : Worker_task_done(t)

Main ==
    \/ Main_loop
    \/ Main_put
    \/ Main_join_in
    \/ Main_join_neighbors
    \/ Main_close
    \/ Main_drain_get
    \/ Main_drain_set
    \/ Main_drain_task_done
    \/ Main_shutdown_in
    \/ Main_shutdown_neighbors
    \/ Main_join_threads

Next ==
    \/ Main
    \/ Workers_get
    \/ Workers_run
    \/ Workers_task_done

Spec == Init /\ [][Next]_vars

SpecFaulty == InitFaulty /\ [][Next]_vars

SpecGlider == InitGlider /\ [][Next]_vars

SpecBlock == InitBlock /\ [][Next]_vars

SpecRule == InitRule /\ [][NextRule]_vars

\* the steps of worker t
Worker(t) == Worker_get(t) \/ Worker_run(t) \/ Worker_task_done(t)

\* every thread that can take a step eventually takes one (the threads are
\* OS threads; none is starved forever)
Fairness ==
    /\ WF_vars(Main)
    /\ \A t \in 1..(2 * PoolSize) : WF_vars(Worker(t))

\* FairSpec: the driver under fair scheduling, started on one grid (the
\* scheduling of the threads does not depend on the cell states)
LiveGrid == Grid_set(Grid_set(Grid(GridH, GridW), 0, 0, ALIVE), 0, 1, ALIVE)

InitLive == InitWith({LiveGrid}, PoolSize, MaxGens, 0) /\ NoRule

FairSpec == InitLive /\ [][Next]_vars /\ Fairness

---------------------------------------------------------------------------
(* SpecLock: the LockGrid methods in separate steps.  In the specifications
   above a call of get, set or __str__ is one step; here the thread first
   acquires the lock of the grid, then runs the Grid method and releases the
   lock, and count_neighbors is its eight get calls one after the other. *)

\* the name of the main thread among the threads 1..2 * PoolSize
MainThread == 0

\* the grid whose method thread th calls next, 0 when its next step is no
\* call of a LockGrid method
Wanted(th) ==
    IF th = MainThread
    THEN CASE main.pc = "loop" /\ main.gen < generations -> lockgrid
           [] main.pc = "put" -> lockgrid
           [] main.pc = "drain_set" -> next_grid
           [] OTHER -> 0
    ELSE IF /\ threads[th].pc = "run"
            /\ CallsGet(threads[th].func)
            /\ Len(threads[th].locals) < 8
         THEN threads[th].item[4]
         ELSE 0

\* thread th is inside the `with self.lock` block of the method it calls
Inside(th) == Wanted(th) # 0 /\ th \in heap[Wanted(th)].lock

\* LockGrid.get, set and __str__, `with self.lock:` entered by thread th
LockGrid_enter(th) ==
    LET g == Wanted(th)
    IN /\ g # 0
       /\ th \notin heap[g].lock
       /\ Lock_acquire_ready(heap[g])
       /\ heap' = [heap EXCEPT ![g] = Lock_acquire(@, th)]
       /\ UNCHANGED <<lockgrid, next_grid, columns, queues, threads,
                      neighbors_threads, game_logic_threads, main,
                      generations, faults, hist, writes, rule_in, rule_out>>

\* LockGrid.get inside count_neighbors: the next of the eight neighbor states
\* is read by Grid.get and the lock released
Worker_read(t) ==
    LET self == threads[t]
        g == self.item[4]
        k == Len(self.locals) + 1
    IN /\ t # MainThread
       /\ Inside(t)
       /\ threads' = [threads EXCEPT ![t].locals =
              Append(@, NeighborStates(self.item[1], self.item[2], heap[g])[k])]
       /\ heap' = [heap EXCEPT ![g] = Lock_release(@, t)]
       /\ UNCHANGED <<lockgrid, next_grid, columns, queues,
                      neighbors_threads, game_logic_threads, main,
                      generations, faults, hist, writes, rule_in, rule_out>>

\* count_neighbors after its eight reads: the count of the ALIVE ones;
\* count_neighbors_thread returns the item and run puts it on the out queue
Worker_count(t) ==
    LET self == threads[t]
        result == <<self.item[1], self.item[2], self.item[3],
                    CountAlive(self.locals)>>
    IN /\ self.pc = "run"
       /\ CallsGet(self.func)
       /\ Len(self.locals) = 8
       /\ queues' = [queues EXCEPT ![self.out_queue] = Queue_put(@, result)]
       /\ hist' = [hist EXCEPT ![self.out_queue] = HistPut(@, result)]
       /\ threads' = [threads EXCEPT ![t].pc = "task_done",
                                      ![t].locals = <<>>]
       /\ UNCHANGED <<heap, lockgrid, next_grid, columns, neighbors_threads,
                      game_logic_threads, main, generations, faults, writes,
                      rule_in, rule_out>>

\* the driver loop: str(lockgrid) inside the lock, columns.append, and the
\* call of simulation_pipeline
Main_loop_locked ==
    /\ main.pc = "loop"
    /\ Inside(MainThread)
    /\ heap' = [heap EXCEPT ![lockgrid] = Lock_release(@, MainThread)]
    /\ IF Grid_str_raises(heap[lockgrid])
       THEN /\ main' = [main EXCEPT !.pc = "raised"]
            /\ UNCHANGED columns
       ELSE /\ columns' = Append(columns, Grid_str(heap[lockgrid]))
            /\ main' = [main EXCEPT !.pc = "put", !.y = 0, !.x = 0]
    /\ UNCHANGED <<lockgrid, next_grid, queues, threads, neighbors_threads,
                   game_logic_threads, generations, faults, hist, writes,
                   rule_in, rule_out>>

\* the driver loop after its last iteration: no method of the grid is called
Main_loop_ends == main.gen >= generations /\ Main_loop

\* simulation_pipeline, the body of the two for loops: grid.get(y, x) inside
\* the lock, then in_queue.put((y, x, state, grid.get))
Main_put_locked ==
    LET grid == heap[lockgrid]
        state == Grid_get(grid, main.y, main.x)
        item == <<main.y, main.x, state, lockgrid>>
        next == NextCell(grid, main.y, main.x)
    IN /\ main.pc = "put"
       /\ Inside(MainThread)
       /\ heap' = [heap EXCEPT ![lockgrid] = Lock_release(@, MainThread)]
       /\ queues' = [queues EXCEPT !["in_queue"] = Queue_put(@, item)]
       /\ hist' = [hist EXCEPT !["in_queue"] = HistPut(@, item)]
       /\ main' = IF next = <<>>
                  THEN [main EXCEPT !.pc = "join_in"]
                  ELSE [main EXCEPT !.y = next[1], !.x = next[2]]
       /\ UNCHANGED <<lockgrid, next_grid, columns, threads,
                      neighbors_threads, game_logic_threads, generations,
                      faults, writes, rule_in, rule_out>>

\* the body of the drain loop: next_grid.set(y, x, state) inside the lock
Main_drain_set_locked ==
    LET y == main.item[1]
        x == main.item[2]
        state == main.item[3]
        grid == heap[next_grid]
    IN /\ main.pc = "drain_set"
       /\ Inside(MainThread)
       /\ heap' = [heap EXCEPT ![next_grid] =
              Lock_release(Grid_set(grid, y, x, state), MainThread)]
       /\ writes' = [writes EXCEPT
              ![<<y % grid.height, x % grid.width>>] = @ + 1]
       /\ main' = [main EXCEPT !.pc = "drain_task_done"]
       /\ UNCHANGED <<lockgrid, next_grid, columns, queues, threads,
                      neighbors_threads, game_logic_threads, generations,
                      faults, hist, rule_in, rule_out>>

LockGrids_enter ==
    \E th \in {MainThread} \cup DOMAIN threads : LockGrid_enter(th)

Workers_read == \E t \in DOMAIN threads : Worker_read(t)

Workers_count == \E t \in DOMAIN threads : Worker_count(t)

\* game_logic_thread calls no method of a grid: its loop body is one step
Workers_run_game_logic ==
    \E t \in DOMAIN threads : ~CallsGet(threads[t].func) /\ Worker_run(t)

MainLocked ==
    \/ Main_loop_locked
    \/ Main_loop_ends
    \/ Main_put_locked
    \/ Main_join_in
    \/ Main_join_neighbors
    \/ Main_close
    \/ Main_drain_get
    \/ Main_drain_set_locked
    \/ Main_drain_task_done
    \/ Main_shutdown_in
    \/ Main_shutdown_neighbors
    \/ Main_join_threads

NextLock ==
    \/ LockGrids_enter
    \/ MainLocked
    \/ Workers_get
    \/ Workers_read
    \/ Workers_count
    \/ Workers_run_game_logic
    \/ Workers_task_done

\* SpecLock: one call of simulation_pipeline on one grid, an accessor that
\* never raises
InitLock == InitWith({LiveGrid}, PoolSize, LockGens, 0) /\ NoRule

SpecLock == InitLock /\ [][NextLock]_vars

---------------------------------------------------------------------------
(* Properties *)

\* the worker threads of a stage, as a set
Pool(list) == {list[i] : i \in 1..Len(list)}

\* H x W of the grid the pipeline is working on
GridSize == heap[lockgrid].height * heap[lockgrid].width

\* the items of a queue that are not the sentinel
NonSentinels(q) == {i \in 1..Len(q.queue) : ~IsSentinel(q.queue[i])}

\* C1: whenever the main thread is about to call out_queue.close(), that is,
\* after in_queue.join() and neighbors_queue.join() returned, out_queue holds
\* exactly H x W items, none of them a sentinel.
C1_OutQueueFullAtClose ==
    main.pc = "close" =>
        /\ Len(queues["out_queue"].queue) = GridSize
        /\ Cardinality(NonSentinels(queues["out_queue"])) = GridSize

\* C1 witness: the second generation reaches out_queue.close() with all the
\* results of the grid waiting in out_queue
C1_Witness ==
    /\ main.pc = "close"
    /\ main.gen = 1
    /\ Len(queues["out_queue"].queue) = GridH * GridW

\* close() has been called on queue q once per thread of the list
AllClosed(q, list) == hist[q].nsentinel = Len(list)

\* every thread of the list has terminated
AllTerminated(list) == \A t \in Pool(list) : threads[t].pc = "terminated"

\* the items taken from queue q are the items put on it, each as often as put
EachTakenOnce(q) == hist[q].got = hist[q].put

\* C2: once close() has been called N times on the input queue of a pool of N
\* workers, all N workers eventually terminate, and by then every item put on
\* the queue has been taken by exactly one worker.
C2_CloseTerminatesAll ==
    /\ AllClosed("in_queue", neighbors_threads)
           ~> AllTerminated(neighbors_threads)
    /\ AllClosed("neighbors_queue", game_logic_threads)
           ~> AllTerminated(game_logic_threads)
    /\ [](AllTerminated(neighbors_threads) => EachTakenOnce("in_queue"))
    /\ [](AllTerminated(game_logic_threads) => EachTakenOnce("neighbors_queue"))

\* C2 witness: both queues closed once per worker, every worker terminated,
\* after the items of all generations went through the queues
C2_Witness ==
    /\ AllClosed("in_queue", neighbors_threads)
    /\ AllClosed("neighbors_queue", game_logic_threads)
    /\ AllTerminated(neighbors_threads)
    /\ AllTerminated(game_logic_threads)
    /\ BagCardinality(hist["in_queue"].put) = MaxGens * GridH * GridW
    /\ BagCardinality(hist["neighbors_queue"].got) = MaxGens * GridH * GridW

\* a cell of some grid holds a captured exception instead of a cell state
ErrorStored == \E g \in 1..Len(heap) : Grid_str_raises(heap[g])

\* C3: an item of out_queue that carries a captured exception makes
\* simulation_pipeline raise: the exception is never stored as a cell of the
\* new grid, and no grid holding one is returned.
C3_ErrorNeverStored == ~ErrorStored

\* the sentinels taken from queue q so far
SentinelsTaken(q) == hist[q].nget - BagCardinality(hist[q].got)

\* the workers of a pool that have left their loop or are leaving it
Stopped(list) ==
    {t \in Pool(list) : threads[t].pc \in {"stop", "terminated"}}

\* the last item put on the output queue of worker t
LastPut(t) ==
    LET q == queues[threads[t].out_queue].queue IN q[Len(q)]

\* worker t ends the loop body of the item it holds
RunStep(t) == threads[t].pc = "run" /\ threads'[t].pc # "run"

\* C4: a worker leaves its loop only with a sentinel taken from its input
\* queue, so all N workers of a pool are alive until sentinels are put on it.
\* The loop body never ends the thread: a failure of the transform is pushed
\* to the output queue as the payload of the item, with the item's row and
\* column, and the worker marks the item done and goes back to get().
C4_FailureNeverEndsWorker ==
    /\ [](/\ Cardinality(Stopped(neighbors_threads))
                = SentinelsTaken("in_queue")
          /\ Cardinality(Stopped(game_logic_threads))
                = SentinelsTaken("neighbors_queue"))
    /\ [][\A t \in DOMAIN threads :
            /\ RunStep(t) =>
                 /\ threads'[t].pc = "task_done"
                 /\ LastPut(t)'[1] = threads[t].item[1]
                 /\ LastPut(t)'[2] = threads[t].item[2]
                 /\ (faults' < faults => LastPut(t)'[4] = CaughtCount)
                 /\ (Fails(threads[t].func, threads[t].item, FALSE)
                       => LastPut(t)'[3] = CaughtState)
            /\ (threads[t].pc = "task_done" /\ threads'[t].pc # "task_done")
                 => threads'[t].pc = "get"]_vars

\* C4 witness: both transforms failed on an item (the count and then the
\* next state are captured exceptions), every item of the grid has since
\* been marked done in both queues, and no worker has stopped
C4_Witness ==
    /\ \E item \in BagToSet(hist["neighbors_queue"].put) :
           item[4] = CaughtCount
    /\ \E item \in BagToSet(hist["out_queue"].put) : item[3] = CaughtState
    /\ hist["in_queue"].ndone = GridH * GridW
    /\ hist["neighbors_queue"].ndone = GridH * GridW
    /\ Stopped(neighbors_threads) = {}
    /\ Stopped(game_logic_threads) = {}

\* the cells of a grid that are ALIVE, as coordinates (row, column)
AliveCells(grid) ==
    {c \in Cells(grid) : grid.rows[c[1] + 1][c[2] + 1] = ALIVE}

\* every cell of the grid is ALIVE or EMPTY
OnlyStates(grid) == ~Grid_str_raises(grid)

\* simulation_pipeline has returned from its first call
Returned == main.gen >= 1

\* C5: on the grid of the driver (5 x 9, ALIVE at (0,3), (1,4), (2,2), (2,3),
\* (2,4)) one call of simulation_pipeline returns the 5 x 9 grid whose ALIVE
\* cells are exactly (1,2), (1,4), (2,3), (2,4), (3,3).
C5_GliderStep ==
    Returned =>
        /\ heap[lockgrid].height = RefHeight
        /\ heap[lockgrid].width = RefWidth
        /\ OnlyStates(heap[lockgrid])
        /\ AliveCells(heap[lockgrid])
             = {<<1, 2>>, <<1, 4>>, <<2, 3>>, <<2, 4>>, <<3, 3>>}

\* C5 witness: the call on the grid of the driver has returned a new grid
C5_Witness ==
    /\ Returned
    /\ lockgrid = 2
    /\ AliveCells(heap[1]) = {<<0, 3>>, <<1, 4>>, <<2, 2>>, <<2, 3>>, <<2, 4>>}
    /\ Cardinality(AliveCells(heap[lockgrid])) = 5

\* C6: on a 5 x 9 grid whose only ALIVE cells form a 2 x 2 block, one call of
\* simulation_pipeline returns a grid with the cell states of its input.
C6_BlockIsStill == Returned => heap[lockgrid].rows = heap[1].rows

\* C6 witness: the call has returned a new grid for a block that lies across
\* the last row and the last column of the torus
C6_Witness ==
    /\ Returned
    /\ lockgrid = 2
    /\ AliveCells(heap[1]) = {<<4, 8>>, <<4, 0>>, <<0, 8>>, <<0, 0>>}
    /\ Cardinality(AliveCells(heap[lockgrid])) = 4

\* simulation_pipeline hands a grid back to the driver in this step
Returns == main'.gen = main.gen + 1

\* the stage-1 items enqueued so far that read grid g
ItemsOf(g) == {item \in BagToSet(hist["in_queue"].put) : item[4] = g}

\* C7: simulation_pipeline hands back the grid of the next generation only
\* when the drain of out_queue has ended with its sentinel; by then every one
\* of the H x W results of the generation has been taken from out_queue and
\* every cell of the returned grid has been written.  No stage-1 item of a
\* generation is enqueued before the grid it reads has been handed back.
C7_GenerationOrder ==
    /\ [][Returns =>
            /\ main.pc = "drain_stop"
            /\ IsSentinel(main.item)
            /\ lockgrid' = next_grid
            /\ queues'["out_queue"].queue = <<>>
            /\ BagCardinality(hist["out_queue"].got) = main'.gen * GridSize
            /\ \A c \in Cells(heap[next_grid]) : writes[c] >= 1]_vars
    /\ [](\A g \in 1..Len(heap) : ItemsOf(g) # {} => g <= main.gen + 1)
    /\ [](\A g \in 1..Len(heap) : ItemsOf(g) # {} => g = 1 \/ lockgrid >= g)

\* C7 witness: the grid of generation 1 has been handed back, fully written,
\* and the driver has started to enqueue the items of generation 2 that read it
C7_Witness ==
    /\ main.gen = 1
    /\ lockgrid = 2
    /\ \A c \in Cells(heap[lockgrid]) : writes[c] >= 1
    /\ ItemsOf(2) # {}

\* every item put on queue q so far has been taken and marked done
AllDone(q) ==
    /\ queues[q].queue = <<>>
    /\ hist[q].nget = hist[q].nput
    /\ hist[q].ndone = hist[q].nput

\* C8: join() on a queue returns only in a state where its count of
\* unfinished tasks is zero and every item put on it so far has been taken and
\* marked done; while one is not, the caller cannot leave join().
C8_JoinWaitsForAll ==
    /\ [][(main.pc = "join_in" /\ main'.pc # "join_in") =>
            queues["in_queue"].unfinished_tasks = 0 /\ AllDone("in_queue")]_vars
    /\ [][(main.pc = "join_neighbors" /\ main'.pc # "join_neighbors") =>
            /\ queues["neighbors_queue"].unfinished_tasks = 0
            /\ AllDone("neighbors_queue")]_vars
    /\ [](main.pc = "join_in" /\ ~AllDone("in_queue")
            => ~ENABLED Main_join_in)
    /\ [](main.pc = "join_neighbors" /\ ~AllDone("neighbors_queue")
            => ~ENABLED Main_join_neighbors)

\* C8 witness: both joins of the second generation have returned, with the
\* items of two generations put on neighbors_queue and all marked done
C8_Witness ==
    /\ main.pc = "close"
    /\ main.gen = 1
    /\ hist["neighbors_queue"].nput = 2 * GridH * GridW
    /\ AllDone("in_queue")
    /\ AllDone("neighbors_queue")

\* the sentinels waiting in queue q
SentinelsIn(q) ==
    Cardinality({i \in 1..Len(queues[q].queue) : IsSentinel(queues[q].queue[i])})

\* the calls of close() the main thread has made on in_queue
ClosesOfIn ==
    IF main.pc = "shutdown_in" THEN main.i
    ELSE IF main.pc \in {"shutdown_neighbors", "join_threads", "end"}
         THEN Len(neighbors_threads)
         ELSE 0

\* the calls of close() the main thread has made on neighbors_queue
ClosesOfNeighbors ==
    IF main.pc = "shutdown_neighbors" THEN main.i
    ELSE IF main.pc \in {"join_threads", "end"} THEN Len(game_logic_threads)
         ELSE 0

\* the calls of close() the main thread has made on out_queue
ClosesOfOut ==
    IF main.pc \in {"drain_get", "drain_set", "drain_task_done", "drain_stop"}
    THEN main.gen + 1
    ELSE main.gen

\* the sentinels of queue q: each one put by a close() of the main thread, and
\* each either waiting in q or taken by a worker that stops
SentinelsAccounted(q, closes, list) ==
    /\ hist[q].nsentinel = closes
    /\ SentinelsIn(q) + Cardinality(Stopped(list)) = closes
    /\ Cardinality({t \in Pool(list) : threads[t].pc = "terminated"}) <= closes

\* a worker that is not stopping and finds its input queue empty is blocked
BlockedInGet(t) ==
    /\ threads[t].pc = "get"
    /\ ~ENABLED Worker_get(t)

\* C9: a sentinel ends the loop of the one consumer that takes it.  It is never
\* the item of a loop body, it is never put back on the input queue and never
\* put on the output queue: the sentinels of a queue are those of the close()
\* calls.  So after k calls of close() at most k consumers have terminated,
\* and the consumers that took no sentinel are blocked in get() once the queue
\* is empty.  Every sentinel taken is marked done: when all threads have been
\* joined no task of either queue is unfinished.
C9_SentinelStopsOneConsumer ==
    /\ \A t \in DOMAIN threads :
          /\ threads[t].pc = "run" => ~IsSentinel(threads[t].item)
          /\ threads[t].pc = "stop" => IsSentinel(threads[t].item)
    /\ SentinelsAccounted("in_queue", ClosesOfIn, neighbors_threads)
    /\ SentinelsAccounted("neighbors_queue", ClosesOfNeighbors,
                          game_logic_threads)
    /\ hist["out_queue"].nsentinel = ClosesOfOut
    /\ main.pc = "end" =>
          /\ AllDone("in_queue") /\ queues["in_queue"].unfinished_tasks = 0
          /\ AllDone("neighbors_queue")
          /\ queues["neighbors_queue"].unfinished_tasks = 0
    /\ \A t \in Pool(neighbors_threads) \ Stopped(neighbors_threads) :
          queues["in_queue"].queue = <<>> /\ threads[t].pc = "get"
              => BlockedInGet(t)
    /\ \A t \in Pool(game_logic_threads) \ Stopped(game_logic_threads) :
          queues["neighbors_queue"].queue = <<>> /\ threads[t].pc = "get"
              => BlockedInGet(t)

\* C9 witness: after one close() of in_queue out of PoolSize, one stage-1
\* worker has terminated on the sentinel, which is gone from the queue, and
\* the others are blocked in get()
C9_Witness ==
    /\ main.pc = "shutdown_in"
    /\ main.i = 1
    /\ main.i < Len(neighbors_threads)
    /\ Cardinality({t \in Pool(neighbors_threads) :
                       threads[t].pc = "terminated"}) = 1
    /\ queues["in_queue"].queue = <<>>
    /\ queues["in_queue"].unfinished_tasks = 0
    /\ \A t \in Pool(neighbors_threads) \ Stopped(neighbors_threads) :
          BlockedInGet(t)

\* the next state the rule gives, as the table of the claim
RuleTable(state, n) ==
    IF state = ALIVE
    THEN (IF n \in {0, 1} THEN EMPTY
          ELSE IF n \in {2, 3} THEN ALIVE
          ELSE EMPTY)
    ELSE (IF n = 3 THEN ALIVE ELSE EMPTY)

\* C10: game_logic returns, for every count n in 0..8, EMPTY for an ALIVE cell
\* with n in {0,1}, ALIVE with n in {2,3}, EMPTY with n in 4..8; for an EMPTY
\* cell ALIVE with n = 3 and EMPTY otherwise.
C10_RuleTable ==
    (rule_out # NoItem /\ rule_in.func = "game_logic") =>
        /\ rule_in.args[2] \in 0..8
        /\ rule_out = <<RuleTable(rule_in.args[1], rule_in.args[2])>>

\* C10 witness: game_logic has been applied to an EMPTY cell with three
\* neighbors and has returned ALIVE
C10_Witness ==
    /\ rule_out = <<ALIVE>>
    /\ rule_in.func = "game_logic"
    /\ rule_in.args = <<EMPTY, 3>>

\* C11: for every grid and all integer coordinates, negative ones included,
\* get(row, col) returns the cell (row mod H, col mod W) and equals
\* get(row + H, col + W), and set(row, col, state) stores state in the cell
\* (row mod H, col mod W) and leaves every other cell as it was.
C11_Wraparound ==
    /\ (rule_in # NoItem /\ rule_out # NoItem /\ rule_in.func = "Grid.get") =>
         LET grid == rule_in.args[1]
             r == FloorMod(rule_in.args[2], grid.height)
             c == FloorMod(rule_in.args[3], grid.width)
         IN /\ rule_out[1] = CellAt(grid, r, c)
            /\ rule_out[2] = rule_out[1]
    /\ (rule_in # NoItem /\ rule_out # NoItem /\ rule_in.func = "Grid.set") =>
         LET grid == rule_in.args[1]
             r == FloorMod(rule_in.args[2], grid.height)
             c == FloorMod(rule_in.args[3], grid.width)
             after == rule_out[1]
         IN /\ after.height = grid.height /\ after.width = grid.width
            /\ \A cell \in Cells(grid) :
                 CellAt(after, cell[1], cell[2]) =
                   IF cell = <<r, c>> THEN rule_in.args[4]
                   ELSE CellAt(grid, cell[1], cell[2])

\* get was called with a negative row and a column past the width on a grid
\* whose addressed cell differs from its transposed one, and returned
C11_Witness ==
    /\ rule_in # NoItem /\ rule_out # NoItem /\ rule_in.func = "Grid.get"
    /\ rule_in.args[2] < 0
    /\ rule_in.args[3] >= rule_in.args[1].width
    /\ rule_out[1] = ALIVE
    /\ Cardinality(AliveCells(rule_in.args[1])) = 1

\* C12: count_neighbors(row, col, get) is in 0..8 and is the number of ALIVE
\* values among the eight values get gives for the neighbors of (row, col);
\* it stays the same when two of the eight values change places, hence under
\* every permutation of them.
C12_CountsAliveNeighbors ==
    (rule_in # NoItem /\ rule_out # NoItem /\ rule_in.func = "count_neighbors")
    => LET y == rule_in.args[1]
           x == rule_in.args[2]
           grid == rule_in.args[3]
           alive == { p \in NeighborCells(y, x, grid) :
                        CellAt(grid, p[1], p[2]) = ALIVE }
       IN /\ Cardinality(NeighborCells(y, x, grid)) = 8
          /\ rule_out[1] \in 0..8
          /\ rule_out[1] = Cardinality(alive)
          /\ rule_out[2] = {rule_out[1]}

\* count_neighbors returned 3 for a corner cell, ALIVE itself, whose ALIVE
\* neighbors include the north-western one, reached across both edges
C12_Witness ==
    /\ rule_in # NoItem /\ rule_out # NoItem
    /\ rule_in.func = "count_neighbors"
    /\ rule_in.args[1] = 0 /\ rule_in.args[2] = 0
    /\ CellAt(rule_in.args[3], 0, 0) = ALIVE
    /\ CellAt(rule_in.args[3], 2, 2) = ALIVE
    /\ rule_out[1] = 3

\* the queue the workers reading `q` put their results on
Downstream(q) == IF q = "in_queue" THEN "neighbors_queue" ELSE "out_queue"

\* the workers whose input queue is `q`
WorkersOf(q) == {t \in DOMAIN threads : threads[t].in_queue = q}

\* the results of the items taken from `q` so far
ResultsOf(q) ==
    { Apply(threads[t].func, item, FALSE) :
        t \in WorkersOf(q), item \in BagToSet(hist[q].got) }

\* C13: a worker puts the result of an item on its output queue before it
\* marks the item done on its input queue; hence whenever the pending count
\* of in_queue (of neighbors_queue) is zero, the result of every item taken
\* from it so far has been put on neighbors_queue (on out_queue).
C13_PutBeforeTaskDone ==
    \A q \in {"in_queue", "neighbors_queue"} :
        /\ \A t \in WorkersOf(q) :
             threads[t].pc = "task_done" =>
               Apply(threads[t].func, threads[t].item, FALSE)
                 \in BagToSet(hist[Downstream(q)].put)
        /\ hist[q].ndone
               - Cardinality({t \in WorkersOf(q) : threads[t].pc = "terminated"})
             <= BagCardinality(hist[Downstream(q)].put)
        /\ queues[q].unfinished_tasks = 0 =>
             /\ BagCardinality(hist[Downstream(q)].put) =
                  BagCardinality(hist[q].got)
             /\ BagToSet(hist[Downstream(q)].put) = ResultsOf(q)

\* in_queue has no pending item while the results of the items taken from it
\* are still pending on neighbors_queue
C13_Witness ==
    /\ main.pc = "join_in"
    /\ queues["in_queue"].unfinished_tasks = 0
    /\ BagCardinality(hist["in_queue"].got) = GridSize
    /\ queues["neighbors_queue"].unfinished_tasks = GridSize

\* the threads that have taken an item from `q` and not yet marked it done:
\* workers between get() and task_done(), the main thread inside the drain
Holders(q) ==
    {t \in WorkersOf(q) : threads[t].pc \in {"run", "task_done", "stop"}}
    \cup (IF q = "out_queue"
             /\ main.pc \in {"drain_set", "drain_task_done", "drain_stop"}
          THEN {MainThread} ELSE {})

\* C14: task_done is called exactly once for every item taken, sentinels
\* included: the pending count of each queue is the number of puts minus the
\* number of task_dones and is never negative, the task_dones never exceed
\* the items taken, and the items taken and not yet marked done are those
\* still held by a thread, one each.
C14_TaskDoneOncePerItem ==
    \A q \in QueueNames :
        /\ queues[q].unfinished_tasks = hist[q].nput - hist[q].ndone
        /\ queues[q].unfinished_tasks >= 0
        /\ hist[q].ndone <= hist[q].nget
        /\ hist[q].nget <= hist[q].nput
        /\ hist[q].nget - hist[q].ndone = Cardinality(Holders(q))
        /\ \A t \in Holders(q) \ {MainThread} : threads[t].item # NoItem

\* a worker has taken a sentinel and marked it done, and the run is over
C14_Witness ==
    /\ main.pc = "end"
    /\ \A q \in QueueNames :
         /\ hist[q].nsentinel > 0
         /\ hist[q].ndone = hist[q].nput
         /\ hist[q].ndone = hist[q].nget

\* C15: when a worker of stage 2 takes an item whose count is the error
\* forwarded by stage 1, the item it puts on out_queue has the error marker
\* as its payload, whether the cell is ALIVE or EMPTY, never a cell state.
C15_ErrorPropagates ==
    [][\A t \in WorkersOf("neighbors_queue") :
         (RunStep(t) /\ threads[t].item[4] = CaughtCount)
           => (LastPut(t)'[3] = CaughtState)]_vars

\* C16: during a call of simulation_pipeline the grid passed in is never
\* written: no step of a worker changes a grid, the main thread writes only
\* into the grid it has just allocated, and the cells of the grid passed in
\* are at the return, and ever after, what they were at the call (the text
\* the driver rendered before the call).
C16_InputGridNeverWritten ==
    /\ [][heap' # heap =>
            /\ main' # main
            /\ main.pc \in {"close", "drain_set"}
            /\ Len(heap') >= Len(heap)
            /\ \A g \in DOMAIN heap :
                 heap'[g] # heap[g] =>
                   (main.pc = "drain_set" /\ g = next_grid /\ g # lockgrid)]_vars
    /\ [](\A k \in DOMAIN columns :
            k \in DOMAIN heap /\ Grid_str(heap[k]) = columns[k])

\* a call has returned a grid that differs from the grid it was given
C16_Witness ==
    /\ main.pc = "loop"
    /\ main.gen = 1
    /\ Len(columns) = 1
    /\ lockgrid = 2
    /\ Grid_str(heap[2]) # columns[1]
    /\ AliveCells(heap[1]) # {}

\* C17: for one LockGrid at most one thread at a time is inside the
\* underlying Grid get, set or __str__: every such operation is run, from
\* its start to its end, by the one thread that holds the lock of the grid,
\* so the workers of stage 1 reading the same grid never overlap in one.
C17_OneThreadInsideGrid ==
    /\ [](\A g \in DOMAIN heap : Cardinality(heap[g].lock) <= 1)
    /\ [][/\ \A t \in DOMAIN threads :
              Len(threads'[t].locals) > Len(threads[t].locals)
                => heap[threads[t].item[4]].lock = {t}
          /\ \A g \in DOMAIN heap :
              heap'[g].rows # heap[g].rows => heap[g].lock = {MainThread}
          /\ columns' # columns => heap[lockgrid].lock = {MainThread}
          /\ hist'["in_queue"].put # hist["in_queue"].put
              => heap[lockgrid].lock = {MainThread}]_vars

\* a worker of stage 1 is inside get on the grid while the other worker of
\* stage 1, half-way through its eight reads, and the main thread, about to
\* read the next cell, wait for the lock of the same grid
C17_Witness ==
    \E t1, t2 \in WorkersOf("in_queue") :
        /\ t1 # t2
        /\ Inside(t1)
        /\ Wanted(t2) = Wanted(t1) /\ ~Inside(t2)
        /\ Len(threads[t2].locals) = 4
        /\ Wanted(MainThread) = Wanted(t1) /\ ~Inside(MainThread)
        /\ ~ENABLED LockGrid_enter(t2)

\* the rows of the sequential reference: every cell of `grid` replaced by
\* game_logic of its state and of count_neighbors at its row and column
SequentialStep(grid) ==
    [y \in 1..grid.height |->
       [x \in 1..grid.width |->
          game_logic(Grid_get(grid, y - 1, x - 1),
                     count_neighbors(y - 1, x - 1, grid))]]

\* C18: for every input grid and every interleaving of the workers the grid
\* simulation_pipeline returns is the same: each cell has been written
\* exactly once and holds game_logic(state, count_neighbors(row, col)) of
\* the input grid, one synchronous step of the sequential reference.
C18_SameAsSequential ==
    /\ [][Returns =>
            /\ \A c \in Cells(heap[lockgrid]) : writes[c] = 1
            /\ heap'[lockgrid'].height = heap[lockgrid].height
            /\ heap'[lockgrid'].width = heap[lockgrid].width
            /\ heap'[lockgrid'].rows = SequentialStep(heap[lockgrid])]_vars
    /\ [](\A g \in DOMAIN heap :
            (1 < g /\ g <= lockgrid) =>
              heap[g].rows = SequentialStep(heap[g - 1]))

\* the second call has returned; the first grid was not symmetric in rows
\* and columns and the first call changed it
C18_Witness ==
    /\ main.pc = "loop"
    /\ main.gen = 2
    /\ lockgrid = 3
    /\ CellAt(heap[1], 0, 1) # CellAt(heap[1], 1, 0)
    /\ heap[2].rows # heap[1].rows
    /\ heap[3].rows = SequentialStep(heap[2])

\* no thread holds an item it has taken and not yet marked done
NoneHeld ==
    /\ \A t \in DOMAIN threads :
         threads[t].pc \in {"get", "terminated"} /\ threads[t].item = NoItem
    /\ main.item = NoItem

\* C19: when simulation_pipeline returns, in_queue, neighbors_queue and
\* out_queue are empty with no unfinished task, the one sentinel of out_queue
\* of this call has been taken and marked done, and no worker holds an item:
\* the next call starts with queues that carry over no item and no sentinel.
C19_QueuesCleanAtReturn ==
    /\ [][Returns =>
            /\ \A q \in QueueNames :
                 /\ queues'[q].queue = <<>>
                 /\ queues'[q].unfinished_tasks = 0
                 /\ hist'[q].nget = hist'[q].nput
                 /\ hist'[q].ndone = hist'[q].nput
            /\ hist'["out_queue"].nsentinel = main'.gen
            /\ NoneHeld']_vars
    /\ []((main.pc = "put" /\ main.y = 0 /\ main.x = 0) =>
            /\ \A q \in QueueNames :
                 queues[q].queue = <<>> /\ queues[q].unfinished_tasks = 0
            /\ NoneHeld)

\* the second call starts on clean queues after the first call has put and
\* taken the sentinel of out_queue
C19_Witness ==
    /\ main.pc = "put" /\ main.y = 0 /\ main.x = 0
    /\ main.gen = 1
    /\ hist["out_queue"].nsentinel = 1
    /\ hist["out_queue"].ndone = GridSize + 1

\* C20: under fair scheduling the run never deadlocks: every call of
\* simulation_pipeline eventually returns (both joins and the drain of
\* out_queue unblock), and after the closes of the shutdown all workers
\* terminate, every thread.join() returns and the run ends.
C20_NoDeadlock ==
    /\ \A k \in 0..(MaxGens - 1) :
         (main.pc = "put" /\ main.gen = k)
           ~> (main.pc = "loop" /\ main.gen = k + 1)
    /\ (main.pc = "shutdown_in")
           ~> (/\ main.pc = "end"
               /\ AllTerminated(neighbors_threads)
               /\ AllTerminated(game_logic_threads))
    /\ <>(main.pc = "end" /\ main.gen = MaxGens)
    /\ [](main.pc # "end" => ENABLED Next)

\* the run has ended after MaxGens calls: the last thread.join() has returned
C20_Witness ==
    /\ main.pc = "end"
    /\ main.gen = MaxGens
    /\ Len(columns) = MaxGens
    /\ \A t \in DOMAIN threads : threads[t].pc = "terminated"

===========================================================================
